---- MODULE Spec2Model ----
(***************************************************************************)
(* Model of ami_deregistration_F_V-1.0.py: lambda_handler scans the        *)
(* configured regions for tagged AMIs, deregisters those older than seven  *)
(* days, deletes their snapshots, and mails a report through SES.          *)
(*                                                                         *)
(* Time is counted in seconds.  The EC2 account (registered images,        *)
(* existing snapshots) and the clock outlive an invocation; everything     *)
(* else is a local of lambda_handler and is reset by Invoke.               *)
(***************************************************************************)
EXTENDS Integers, Sequences, FiniteSets, TLC

\* ---------------------------------------------------------------- bounds
MaxImages == 2      \* tagged images in the account
MaxTick == 1        \* seconds the clock may advance

\* ------------------------------------------------------- program constants
RetentionDays == 7                      \* timedelta(days=7)
SevenDays == RetentionDays * 24 * 60 * 60

Header == <<"Account", "Region", "AMI ID", "Snapshot", "Delete Date">>
ColAmiId == 3                           \* start_column=3, end_column=3
ColDeleteDate == 5                      \* start_column=5, end_column=5

\* ------------------------------------------------------------ environment
Regions == <<"us-east-1", "us-west-2">>     \* os.environ['AWS_REGIONS'].split(',')
SenderEmail == "sender@x.com"               \* os.environ['SENDER_EMAIL']
RecipientEmails == <<"a@x.com", "b@x.com">> \* os.environ['RECIPIENT_EMAILS'].split(',')
Emails == { RecipientEmails[k] : k \in DOMAIN RecipientEmails }
Account == "111122223333"

Now0 == SevenDays + 1                   \* the clock at the first invocation
ImageIds == 1..MaxImages
AmiId(i) == "ami-" \o ToString(i)
SnapshotId(i, k) == "snap-" \o ToString(i) \o "-" \o ToString(k)
NoSnapshotId == ""                      \* what .get('SnapshotId') gives then is falsy

\* CreationDate strings the provider may hold: two well-formed ones at the
\* retention boundary as seen at Now0 (seven days and a second, and seven
\* days exactly: the latter crosses the boundary when the clock advances),
\* and one that strptime rejects.
WellFormedDates ==
    { [wellFormed |-> TRUE, t |-> Now0 - SevenDays - 1],
      [wellFormed |-> TRUE, t |-> Now0 - SevenDays] }
MalformedDate == [wellFormed |-> FALSE, t |-> 0]

\* The account holds two tagged images per region, filling the regions in turn.
RegionOf(i) == Regions[(((i - 1) \div 2) % Len(Regions)) + 1]

\* A block device mapping either carries an Ebs.SnapshotId or does not
\* (an instance-store volume).  Snapshot ids are private to their image.
\* The images of the model reference no, one or three snapshots.
DevicePatterns ==
    { <<"ephemeral">>,
      <<"ebs">>,
      <<"ebs", "ephemeral", "ebs", "ebs">> }

\* The images the account may hold; the mappings of an image with a
\* malformed date are never read, so one pattern stands for all.
ImageChoices ==
    (WellFormedDates \X DevicePatterns) \cup {<<MalformedDate, <<"ebs">>>>}
BlockDevice(i, k, kind) ==
    [SnapshotId |-> IF kind = "ebs" THEN SnapshotId(i, k) ELSE NoSnapshotId]
Mappings(i, pattern) ==
    [k \in 1..Len(pattern) |-> BlockDevice(i, k, pattern[k])]

Image(i, date, pattern) ==
    [ImageId |-> AmiId(i), OwnerId |-> Account, Region |-> RegionOf(i),
     CreationDate |-> date, BlockDeviceMappings |-> Mappings(i, pattern)]

Range(s) == { s[k] : k \in DOMAIN s }

MappedSnapshots(image) ==
    { d.SnapshotId : d \in Range(image.BlockDeviceMappings) } \ {NoSnapshotId}

VARIABLES
    now,            \* datetime.now(), seconds
    catalog,        \* image id -> image record as describe_images returns it
    registered,     \* ids of the images still registered in the account
    existing,       \* snapshot ids that still exist in the account
    run,            \* "first", or "rerun" for the invocation after it
    pc,             \* position of lambda_handler
    region_idx,     \* index of `region` in regions
    images_response,\* images_response['Images'] of the current region
    image_idx,      \* index of `image` in images_response['Images']
    snapshots,      \* the selected image's snapshot ids
    snapshot_idx,   \* index of `snapshot_id` in snapshots
    ami_details,    \* deletion records of this invocation
    recipients,     \* [configured, valid, unverified] once partitioned
    result,         \* what the invocation returned or raised
    trace,          \* provider calls and age checks of this invocation
    previous        \* summary of the invocation before this one

vars == <<now, catalog, registered, existing, run, pc, region_idx,
          images_response, image_idx, snapshots, snapshot_idx, ami_details,
          recipients, result, trace, previous>>

account == <<catalog, registered, existing>>
locals == <<region_idx, images_response, image_idx, snapshots, snapshot_idx,
            ami_details, recipients>>

NoResult == [kind |-> "running", statusCode |-> 0, body |-> ""]
Returned(code, text) == [kind |-> "return", statusCode |-> code, body |-> text]
Raised(what) == [kind |-> "raise", statusCode |-> 0, body |-> what]

NoSummary == [statusCode |-> 0, recorded |-> {}]
NoRecipients == [configured |-> <<>>, valid |-> <<>>, unverified |-> <<>>]

Event(op, arg, outcome) == [op |-> op, arg |-> arg, outcome |-> outcome]

\* ------------------------------------------------------------ scan helpers

\* ec2_client.describe_images(Filters=..., Owners=['self']) in `region`: the
\* registered tagged images of that region, in id order.
RECURSIVE ListFrom(_, _, _, _)
ListFrom(cat, reg, region, i) ==
    IF i > MaxImages THEN <<>>
    ELSE (IF cat[i].Region = region /\ cat[i].ImageId \in reg
          THEN <<cat[i]>> ELSE <<>>) \o ListFrom(cat, reg, region, i + 1)
describe_images(cat, reg, region) == ListFrom(cat, reg, region, 1)

\* datetime.strptime(creation_date, '%Y-%m-%dT%H:%M:%S.%fZ') succeeds
strptime_ok(creation_date) == creation_date.wellFormed

\* Mutant: the boundary taken as "at least seven days".
OlderThanOneWeek_Inclusive(creation_date, clock) ==
    clock - creation_date.t >= SevenDays

\* datetime.now() - creation_date_dt > timedelta(days=7)
OlderThanOneWeek(creation_date, clock) == clock - creation_date.t > SevenDays

\* [bd.get('Ebs', {}).get('SnapshotId') for bd in image.get('BlockDeviceMappings', [])
\*  if bd.get('Ebs', {}).get('SnapshotId')]
HasSnapshotId(block_device) == block_device.SnapshotId # NoSnapshotId
SnapshotIdsOf(image) ==
    LET kept == SelectSeq(image.BlockDeviceMappings, HasSnapshotId)
    IN  [k \in 1..Len(kept) |-> kept[k].SnapshotId]

\* datetime.now().strftime('%Y-%m-%d %H:%M:%S')
strftime(clock) == ToString(clock)

Detail(image, region, snaps, clock) ==
    [Account |-> image.OwnerId, Region |-> region, AmiId |-> image.ImageId,
     Snapshots |-> snaps, DeleteDate |-> strftime(clock)]

\* ------------------------------------------------------------------- Init
Init ==
    /\ now = Now0
    /\ catalog \in { [i \in ImageIds |-> Image(i, f[i][1], f[i][2])] :
                       f \in [ImageIds -> ImageChoices] }
    /\ registered = { catalog[i].ImageId : i \in ImageIds }
    /\ existing = UNION { MappedSnapshots(catalog[i]) : i \in ImageIds }
    /\ run = "first"
    /\ pc = "describe_images"
    /\ region_idx = 1
    /\ images_response = <<>>
    /\ image_idx = 0
    /\ snapshots = <<>>
    /\ snapshot_idx = 0
    /\ ami_details = <<>>
    /\ recipients = NoRecipients
    /\ result = NoResult
    /\ trace = <<>>
    /\ previous = NoSummary

\* --------------------------------------------------------------- the scan
region == Regions[region_idx]
image == images_response[image_idx]

\* Mutant: the exception is swallowed and the handler goes on to notify.
Raise_Swallowed(what) ==
    /\ pc' = "recipients"
    /\ result' = result

\* An uncaught exception ends the invocation.
Raise(what) ==
    /\ pc' = "failed"
    /\ result' = Raised(what)

\* Control reaches the head of `for image in images_response['Images']` with
\* the next index ii; an exhausted list falls through to the next region, and
\* the last region falls through to the recipients (line 58).
LoopImages(ii) ==
    /\ image_idx' = ii
    /\ IF ii <= Len(images_response') THEN
            /\ pc' = "examine"
            /\ region_idx' = region_idx
       ELSE IF region_idx < Len(Regions) THEN
            /\ pc' = "describe_images"
            /\ region_idx' = region_idx + 1
       ELSE /\ pc' = "recipients"
            /\ region_idx' = region_idx

DescribeImages ==
    /\ pc = "describe_images"
    /\ \/ /\ images_response' = describe_images(catalog, registered, region)
          /\ trace' = Append(trace, Event("describe_images", region, "ok"))
          /\ LoopImages(1)
          /\ UNCHANGED result
       \/ /\ trace' = Append(trace, Event("describe_images", region, "error"))
          /\ Raise("describe_images")
          /\ UNCHANGED <<region_idx, images_response, image_idx>>
    /\ UNCHANGED <<now, account, run, snapshots, snapshot_idx, ami_details,
                   recipients, previous>>

ExamineImage ==
    /\ pc = "examine"
    /\ IF ~strptime_ok(image.CreationDate) THEN
            /\ Raise("strptime")
            /\ UNCHANGED <<region_idx, images_response, image_idx, snapshots,
                           trace>>
       ELSE IF OlderThanOneWeek(image.CreationDate, now) THEN
            /\ snapshots' = SnapshotIdsOf(image)
            /\ pc' = "deregister_image"
            /\ trace' = Append(trace, Event("age", <<image.ImageId, now>>, "selected"))
            /\ UNCHANGED <<region_idx, images_response, image_idx, result>>
       ELSE /\ trace' = Append(trace, Event("age", <<image.ImageId, now>>, "kept"))
            /\ UNCHANGED <<images_response, snapshots, result>>
            /\ LoopImages(image_idx + 1)
    /\ UNCHANGED <<now, account, run, snapshot_idx, ami_details, recipients,
                   previous>>

\* Mutant: the deregistration never takes effect in the account.
deregister_image_NoEffect(reg, ami_id) == reg

\* What a successful ec2_client.deregister_image(ImageId=ami_id) leaves registered.
deregister_image(reg, ami_id) == reg \ {ami_id}

\* Mutant: the snapshot deletion never takes effect in the account.
delete_snapshot_NoEffect(snaps, snapshot_id) == snaps

\* What a successful ec2_client.delete_snapshot(SnapshotId=snapshot_id) leaves.
delete_snapshot(snaps, snapshot_id) == snaps \ {snapshot_id}

\* ec2_client.deregister_image(ImageId=ami_id)
DeregisterImage ==
    /\ pc = "deregister_image"
    /\ \/ /\ registered' = deregister_image(registered, image.ImageId)
          /\ trace' = Append(trace, Event("deregister_image", image.ImageId, "ok"))
          /\ IF snapshots = <<>>
             THEN pc' = "append" /\ snapshot_idx' = snapshot_idx
             ELSE pc' = "delete_snapshot" /\ snapshot_idx' = 1
          /\ UNCHANGED result
       \/ /\ trace' = Append(trace, Event("deregister_image", image.ImageId, "error"))
          /\ Raise("deregister_image")
          /\ UNCHANGED <<registered, snapshot_idx>>
    /\ UNCHANGED <<now, catalog, existing, run, region_idx, images_response,
                   image_idx, snapshots, ami_details, recipients, previous>>

\* for snapshot_id in snapshots: ec2_client.delete_snapshot(SnapshotId=snapshot_id)
DeleteSnapshot ==
    /\ pc = "delete_snapshot"
    /\ LET snapshot_id == snapshots[snapshot_idx] IN
       \/ /\ existing' = delete_snapshot(existing, snapshot_id)
          /\ trace' = Append(trace, Event("delete_snapshot", snapshot_id, "ok"))
          /\ IF snapshot_idx < Len(snapshots)
             THEN pc' = "delete_snapshot" /\ snapshot_idx' = snapshot_idx + 1
             ELSE pc' = "append" /\ snapshot_idx' = snapshot_idx
          /\ UNCHANGED result
       \/ /\ trace' = Append(trace, Event("delete_snapshot", snapshot_id, "error"))
          /\ Raise("delete_snapshot")
          /\ UNCHANGED <<existing, snapshot_idx>>
    /\ UNCHANGED <<now, catalog, registered, run, region_idx, images_response,
                   image_idx, snapshots, ami_details, recipients, previous>>

\* ami_details.append({...})
AppendDetails ==
    /\ pc = "append"
    /\ ami_details' = Append(ami_details, Detail(image, region, snapshots, now))
    /\ UNCHANGED images_response
    /\ LoopImages(image_idx + 1)
    /\ UNCHANGED <<now, account, run, snapshots, snapshot_idx, recipients,
                   result, trace, previous>>

\* ------------------------------------------------------------- the report
\* One worksheet: its rows (the header is row 1), the merged ranges and the
\* cells given Alignment(vertical='center').
NewWorksheet == [rows |-> <<Header>>, merged |-> {}, centered |-> {}]

\* Mutant: the AMI ID is repeated on the continuation rows.
Row_RepeatAmiId(detail, i) ==
    <<detail.Account, detail.Region, detail.AmiId, detail.Snapshots[i],
      IF i = 1 THEN detail.DeleteDate ELSE "">>

\* row = [Account, Region, AMI ID if i == 0 else "", snapshot,
\*        Delete Date if i == 0 else ""]      (i counts from 1 here)
Row(detail, i) ==
    <<detail.Account, detail.Region,
      IF i = 1 THEN detail.AmiId ELSE "",
      detail.Snapshots[i],
      IF i = 1 THEN detail.DeleteDate ELSE "">>

\* The body of `for detail in ami_details`: one ws.append per snapshot, then
\* the two merges and alignments when there is more than one snapshot.
AddDetail(ws, detail) ==
    LET n == Len(detail.Snapshots)
        rows == ws.rows \o [i \in 1..n |-> Row(detail, i)]
        max_row == Len(rows)
        first == max_row - n + 1
    IN  [rows |-> rows,
         merged |-> IF n > 1
                    THEN ws.merged \cup
                         { [column |-> c, start_row |-> first, end_row |-> max_row] :
                             c \in {ColAmiId, ColDeleteDate} }
                    ELSE ws.merged,
         centered |-> IF n > 1
                      THEN ws.centered \cup
                           { [row |-> first, column |-> c] :
                               c \in {ColAmiId, ColDeleteDate} }
                      ELSE ws.centered]

RECURSIVE AddDetails(_, _)
AddDetails(ws, details) ==
    IF details = <<>> THEN ws
    ELSE AddDetails(AddDetail(ws, Head(details)), Tail(details))

BuildReport(details) == AddDetails(NewWorksheet, details)

\* ------------------------------------------------------------ the messages
\* ', '.join(emails)
RECURSIVE Join(_)
Join(emails) ==
    IF emails = <<>> THEN ""
    ELSE IF Len(emails) = 1 THEN emails[1]
    ELSE emails[1] \o ", " \o Join(Tail(emails))

\* {', '.join(unverified_emails) if unverified_emails else 'None'}
UnverifiedLine(unverified_emails) ==
    IF unverified_emails # <<>> THEN Join(unverified_emails) ELSE "None"

create_raw_email_with_attachment(source_email, dest_emails, excel_data, unverified_emails) ==
    [Subject |-> "AMI and Snapshot Deregistration Report",
     From |-> source_email,
     To |-> Join(dest_emails),
     Unverified |-> UnverifiedLine(unverified_emails),
     Attachments |-> << [filename |-> "ami_snapshot_report.xlsx",
                         data |-> excel_data] >>]

create_raw_email_no_ami_found(source_email, dest_emails, unverified_emails) ==
    [Subject |-> "No AMIs Older Than 7 Days Found",
     From |-> source_email,
     To |-> Join(dest_emails),
     Unverified |-> UnverifiedLine(unverified_emails),
     Attachments |-> <<>>]

\* ---------------------------------------------------------- the recipients
\* What SES holds for each address: no identity, or an identity with a
\* verification status.
Statuses == {"Success", "Pending", "absent"}
SesState(a, b) == [e \in Emails |-> IF e = RecipientEmails[1] THEN a ELSE b]
SesStates ==
    { SesState("Success", "Success"),
      SesState("Success", "Pending"),
      SesState("absent", "Success"),
      SesState("Pending", "absent") }

IsIn(list, e) == \E k \in DOMAIN list : list[k] = e

\* ses_client.list_identities(IdentityType='EmailAddress')['Identities']
list_identities(ses) ==
    LET isIdentity(e) == ses[e] # "absent" IN SelectSeq(RecipientEmails, isIdentity)

\* Mutant: every identity counts as verified, whatever its status.
get_verified_emails_AnyStatus(ses) == list_identities(ses)

\* The identities whose VerificationStatus is 'Success'.
get_verified_emails(ses) ==
    LET verified(identity) == ses[identity] = "Success"
    IN  SelectSeq(list_identities(ses), verified)

\* [email for email in recipient_emails if email in verified_emails]
ValidRecipients(recipient_emails, verified_emails) ==
    LET keep(email) == IsIn(verified_emails, email)
    IN  SelectSeq(recipient_emails, keep)

\* [email for email in recipient_emails if email not in verified_emails]
UnverifiedRecipients(recipient_emails, verified_emails) ==
    LET keep(email) == ~IsIn(verified_emails, email)
    IN  SelectSeq(recipient_emails, keep)

\* Mutant: the early return is never taken.
NoValidRecipients_Never(valid_recipient_emails) == FALSE

\* if not valid_recipient_emails:
NoValidRecipients(valid_recipient_emails) == valid_recipient_emails = <<>>

\* Mutant: a rejected message is reported as a success.
MessageRejectedResult_Success ==
    Returned(200, "Successfully processed AMIs and sent email.")

\* The three return statements of lambda_handler.  The body of the rejected
\* send is 'Failed to send email: ' followed by the exception's text, which
\* the model leaves out.
NoValidRecipientsResult ==
    Returned(400, "No valid recipient email addresses found.")
MessageRejectedResult == Returned(400, "Failed to send email")
SuccessResult == Returned(200, "Successfully processed AMIs and sent email.")

VerifyRecipients ==
    /\ pc = "recipients"
    /\ \/ \E ses \in SesStates :
            LET recipient_emails == RecipientEmails
                verified_emails == get_verified_emails(ses)
                valid == ValidRecipients(recipient_emails, verified_emails)
                unverified == UnverifiedRecipients(recipient_emails, verified_emails)
            IN  /\ recipients' = [configured |-> recipient_emails,
                                  valid |-> valid, unverified |-> unverified]
                /\ trace' = Append(trace, Event("list_identities", ses, "ok"))
                /\ IF NoValidRecipients(valid)
                   THEN /\ pc' = "done"
                        /\ result' = NoValidRecipientsResult
                   ELSE /\ pc' = "send"
                        /\ UNCHANGED result
       \/ /\ trace' = Append(trace, Event("list_identities", "", "error"))
          /\ Raise("list_identities")
          /\ UNCHANGED recipients
    /\ UNCHANGED <<now, account, run, region_idx, images_response, image_idx,
                   snapshots, snapshot_idx, ami_details, previous>>

\* Mutant: the report template is used whatever was deleted.
RawMessage_AlwaysReport ==
    create_raw_email_with_attachment(SenderEmail, recipients.valid,
        BuildReport(ami_details), recipients.unverified)

\* The RawMessage the try block hands to ses_client.send_raw_email.
RawMessage ==
    IF ami_details # <<>>
    THEN create_raw_email_with_attachment(SenderEmail, recipients.valid,
             BuildReport(ami_details), recipients.unverified)
    ELSE create_raw_email_no_ami_found(SenderEmail, recipients.valid,
             recipients.unverified)

SendCall == [Source |-> SenderEmail, Destinations |-> recipients.valid,
             RawMessage |-> RawMessage]

SendEmail ==
    /\ pc = "send"
    /\ \/ /\ trace' = Append(trace, Event("send_raw_email", SendCall, "ok"))
          /\ pc' = "done"
          /\ result' = SuccessResult
       \/ /\ trace' = Append(trace,
                          Event("send_raw_email", SendCall, "MessageRejected"))
          /\ pc' = "done"
          /\ result' = MessageRejectedResult
       \/ /\ trace' = Append(trace, Event("send_raw_email", SendCall, "error"))
          /\ Raise("send_raw_email")
    /\ UNCHANGED <<now, account, run, locals, previous>>

\* ------------------------------------------------------ invocations, clock
Finished == pc \in {"done", "failed"}

Summary == [statusCode |-> result.statusCode,
            recorded |-> { ami_details[k].AmiId : k \in DOMAIN ami_details }]

\* The timer invokes lambda_handler again after an invocation that returned:
\* the locals start afresh, the account is what that invocation left.
Invoke ==
    /\ pc = "done"
    /\ run = "first"
    /\ run' = "rerun"
    /\ previous' = Summary
    /\ pc' = "describe_images"
    /\ region_idx' = 1
    /\ images_response' = <<>>
    /\ image_idx' = 0
    /\ snapshots' = <<>>
    /\ snapshot_idx' = 0
    /\ ami_details' = <<>>
    /\ recipients' = NoRecipients
    /\ result' = NoResult
    /\ trace' = <<>>
    /\ UNCHANGED <<now, account>>

\* Time passes while an invocation runs and between invocations.
Tick ==
    /\ pc # "failed"
    /\ pc = "done" => run = "first"
    /\ now < Now0 + MaxTick
    /\ now' = now + 1
    /\ UNCHANGED <<account, run, pc, locals, result, trace, previous>>

Next ==
    \/ DescribeImages
    \/ ExamineImage
    \/ DeregisterImage
    \/ DeleteSnapshot
    \/ AppendDetails
    \/ VerifyRecipients
    \/ SendEmail
    \/ Invoke
    \/ Tick

Spec == Init /\ [][Next]_vars

\* ================================================================ claims
\* What the trace of the current invocation shows.
Idx(op) == { k \in DOMAIN trace : trace[k].op = op }
OkIdx(op) == { k \in Idx(op) : trace[k].outcome = "ok" }
AgeChecks == Idx("age")
Selected == { trace[k].arg[1] : k \in { j \in AgeChecks : trace[j].outcome = "selected" } }
DeregisteredInRun == { trace[k].arg : k \in OkIdx("deregister_image") }
DeletedInRun == { trace[k].arg : k \in OkIdx("delete_snapshot") }
Sends == Idx("send_raw_email")
ImageOf(ami_id) == catalog[CHOOSE i \in ImageIds : catalog[i].ImageId = ami_id]
AgeAt(k) == trace[k].arg[2] - ImageOf(trace[k].arg[1]).CreationDate.t
ScanComplete == pc \in {"recipients", "send", "done"}
IsReport(m) ==
    /\ m.Subject = "AMI and Snapshot Deregistration Report"
    /\ Len(m.Attachments) = 1
IsNoneFound(m) ==
    /\ m.Subject = "No AMIs Older Than 7 Days Found"
    /\ m.Attachments = <<>>

\* C1: an image the scan examines is selected, and its deregister call
\* issued, exactly when its age at the check is strictly more than seven
\* days; an image not older than that (seven days exactly included) stays
\* registered with all its snapshots; and once the scan is complete every
\* image that was listed has been deregistered iff its age exceeded seven days.
C1_RetentionBoundaryStrict ==
    LET checks == AgeChecks
        deregistered == DeregisteredInRun
    IN
    /\ \A k \in checks :
         LET ami_id == trace[k].arg[1]
             age == AgeAt(k)
         IN
         /\ (trace[k].outcome = "selected") <=> (age > SevenDays)
         /\ age = SevenDays => trace[k].outcome = "kept"
         /\ age = SevenDays + 1 => trace[k].outcome = "selected"
         /\ trace[k].outcome = "selected" =>
              IF k = Len(trace) THEN pc = "deregister_image"
              ELSE trace[k + 1].op = "deregister_image" /\ trace[k + 1].arg = ami_id
         /\ trace[k].outcome = "kept" =>
              /\ ami_id \in registered
              /\ MappedSnapshots(ImageOf(ami_id)) \subseteq existing
              /\ \A j \in Idx("deregister_image") : trace[j].arg # ami_id
    /\ \A j \in Idx("deregister_image") :
         j > 1 /\ trace[j - 1].op = "age" /\ trace[j - 1].outcome = "selected"
               /\ trace[j - 1].arg[1] = trace[j].arg
    /\ ScanComplete =>
         \A i \in ImageIds :
           catalog[i].ImageId \in registered \cup deregistered =>
             /\ \E k \in checks : trace[k].arg[1] = catalog[i].ImageId
             /\ \A k \in checks : trace[k].arg[1] = catalog[i].ImageId =>
                  (catalog[i].ImageId \in deregistered
                     <=> trace[k].arg[2] - catalog[i].CreationDate.t > SevenDays)

\* One image exactly seven days old was kept and another, one second older,
\* was deregistered in the same scan.
C1_Witness ==
    /\ ScanComplete
    /\ \E k \in AgeChecks : AgeAt(k) = SevenDays /\ trace[k].arg[1] \in registered
    /\ \E k \in AgeChecks : AgeAt(k) = SevenDays + 1
                            /\ trace[k].arg[1] \in DeregisteredInRun

\* The SES state the recipients were checked against, once they were.
Partitioned == OkIdx("list_identities") # {}
SesSeen == trace[CHOOSE k \in OkIdx("list_identities") : TRUE].arg
NoneVerified == \A e \in Emails : IsIn(recipients.configured, e) => SesSeen[e] # "Success"

\* C2: when no configured recipient is a verified identity, the invocation
\* returns 400 'No valid recipient email addresses found.' and makes no send
\* call.
C2_NoValidRecipientsNoSend ==
    (Partitioned /\ NoneVerified) =>
        /\ pc = "done"
        /\ result = Returned(400, "No valid recipient email addresses found.")
        /\ Sends = {}

\* No recipient is verified, after a scan that deregistered an image.
C2_Witness ==
    /\ Partitioned /\ NoneVerified
    /\ DeregisteredInRun # {}
    /\ result.statusCode = 400

\* C3: at most one email is sent per invocation; a sent email is the report
\* with its attachment iff at least one image was deregistered in this
\* invocation, and the 'none found' message without attachment iff no image
\* passed the age filter.
C3_TemplatesExclusive ==
    /\ Cardinality(Sends) <= 1
    /\ \A k \in Sends :
         LET m == trace[k].arg.RawMessage IN
         /\ IsReport(m) <=> DeregisteredInRun # {}
         /\ IsNoneFound(m) <=> Selected = {}
         /\ IsReport(m) # IsNoneFound(m)

\* Both templates go out: the report in the first invocation, 'none found'
\* in the one after it.
C3_Witness ==
    /\ run = "rerun"
    /\ previous.statusCode = 200 /\ previous.recorded # {}
    /\ \E k \in Sends : IsNoneFound(trace[k].arg.RawMessage)
                        /\ trace[k].outcome = "ok"

\* Data rows written for the details before the k-th one.
RECURSIVE RowsBefore(_, _)
RowsBefore(details, k) ==
    IF k <= 1 THEN 0
    ELSE RowsBefore(details, k - 1) + Len(details[k - 1].Snapshots)

\* The position of a snapshot id in an image's block device mappings.
PositionIn(mappings, snapshot_id) ==
    CHOOSE p \in DOMAIN mappings : mappings[p].SnapshotId = snapshot_id

\* The layout C4 asks of worksheet ws for the deletion records `details`.
LayoutOf(ws, details) ==
    /\ ws.rows[1] = Header
    /\ Len(ws.rows) = 1 + RowsBefore(details, Len(details) + 1)
    /\ \A k \in DOMAIN details :
         LET d == details[k]
             n == Len(d.Snapshots)
             first == 1 + RowsBefore(details, k) + 1
             mappings == ImageOf(d.AmiId).BlockDeviceMappings
         IN  /\ \A i \in 1..n :
                  LET r == ws.rows[first + i - 1] IN
                  /\ r[1] = d.Account /\ r[2] = d.Region
                  /\ r[4] = d.Snapshots[i]
                  /\ r[3] = (IF i = 1 THEN d.AmiId ELSE "")
                  /\ r[5] = (IF i = 1 THEN d.DeleteDate ELSE "")
             /\ { d.Snapshots[i] : i \in 1..n } = MappedSnapshots(ImageOf(d.AmiId))
             /\ \A i, j \in 1..n :
                  i < j => PositionIn(mappings, d.Snapshots[i])
                           < PositionIn(mappings, d.Snapshots[j])
             /\ n > 1 =>
                  \A c \in {ColAmiId, ColDeleteDate} :
                    /\ [column |-> c, start_row |-> first,
                        end_row |-> first + n - 1] \in ws.merged
                    /\ [row |-> first, column |-> c] \in ws.centered

\* C4: after the single header row the report holds, for each deletion record
\* in deletion order, one row per snapshot in mapping order carrying the
\* record's Account, Region and that snapshot id; AMI ID and Delete Date are
\* filled on the first of these rows only and merged over them.
C4_ReportLayout ==
    /\ LayoutOf(BuildReport(ami_details), ami_details)
    /\ \A k \in Sends :
         LET m == trace[k].arg.RawMessage IN
         IsReport(m) => LayoutOf(m.Attachments[1].data, ami_details)

\* A report was sent that lists an image with three snapshots followed by
\* another image.
C4_Witness ==
    /\ \E k \in Sends : IsReport(trace[k].arg.RawMessage)
    /\ Len(ami_details) = 2
    /\ Len(ami_details[1].Snapshots) = 3
    /\ Len(ami_details[2].Snapshots) >= 1

\* C5: every image deregistered in an invocation that sends the report has
\* its AMI ID in a data row of that report.
C5_DeregisteredImagesInReport ==
    \A k \in Sends :
      LET m == trace[k].arg.RawMessage IN
      IsReport(m) =>
        \A ami_id \in DeregisteredInRun :
          \E r \in 2..Len(m.Attachments[1].data.rows) :
            m.Attachments[1].data.rows[r][ColAmiId] = ami_id

\* The image a snapshot id belongs to.
OwnerOf(snapshot_id) ==
    catalog[CHOOSE i \in ImageIds :
              snapshot_id \in MappedSnapshots(catalog[i])].ImageId
Recorded == { ami_details[k].AmiId : k \in DOMAIN ami_details }
FailedCalls(op) == { k \in Idx(op) : trace[k].outcome = "error" }

\* C6: a snapshot is deleted only after its image was deregistered with
\* success, and never when the deregistration failed; an image whose
\* processing completed has lost every referenced snapshot; a failing
\* snapshot deletion is the last thing the invocation does: the image stays
\* deregistered, the snapshots already deleted stay deleted, the exception is
\* uncaught, no later image is examined and no email is sent.
C6_DeregisterThenDeleteNoRollback ==
    LET deregistered == DeregisteredInRun
        deleted == DeletedInRun
        okDeregister == OkIdx("deregister_image")
    IN
    /\ \A k \in Idx("delete_snapshot") :
         LET owner == OwnerOf(trace[k].arg) IN
         \E j \in okDeregister : j < k /\ trace[j].arg = owner
    /\ \A j \in FailedCalls("deregister_image") :
         /\ MappedSnapshots(ImageOf(trace[j].arg)) \subseteq existing
         /\ trace[j].arg \in registered
         /\ j = Len(trace) /\ pc = "failed"
    /\ \A k \in DOMAIN ami_details :
         LET mapped == MappedSnapshots(ImageOf(ami_details[k].AmiId)) IN
         /\ ami_details[k].AmiId \in deregistered
         /\ mapped \subseteq deleted
         /\ mapped \cap existing = {}
    /\ \A k \in FailedCalls("delete_snapshot") :
         LET owner == OwnerOf(trace[k].arg) IN
         /\ k = Len(trace)
         /\ pc = "failed" /\ result = Raised("delete_snapshot")
         /\ owner \notin registered
         /\ owner \notin Recorded
         /\ deleted \cap existing = {}
         /\ trace[k].arg \in existing
         /\ Sends = {}
    /\ deregistered \cap registered = {}

\* The second snapshot of an image fails to delete while another old image
\* of the same listing is still waiting.
C6_Witness ==
    /\ \E k \in FailedCalls("delete_snapshot") :
         /\ k > 1 /\ trace[k - 1].op = "delete_snapshot"
         /\ trace[k - 1].outcome = "ok"
    /\ image_idx < Len(images_response)
    /\ LET next == images_response[image_idx + 1] IN
         /\ next.CreationDate.wellFormed
         /\ now - next.CreationDate.t > SevenDays
         /\ next.ImageId \in registered

Verified(e) == SesSeen[e] = "Success"

\* C7: the valid list holds exactly the configured addresses whose identity
\* has verification status 'Success', the unverified list exactly the other
\* configured addresses; every send goes to the valid list and its body
\* lists the unverified addresses, or 'None' when there is none.
C7_RecipientPartition ==
    Partitioned =>
      LET conf == recipients.configured
          valid == recipients.valid
          unverified == recipients.unverified
      IN  /\ conf = RecipientEmails
          /\ Range(valid) = { e \in Range(conf) : Verified(e) }
          /\ Range(unverified) = { e \in Range(conf) : ~Verified(e) }
          /\ Range(valid) \cap Range(unverified) = {}
          /\ Range(valid) \cup Range(unverified) = Range(conf)
          /\ Len(valid) + Len(unverified) = Len(conf)
          /\ (Verified("a@x.com") /\ ~Verified("b@x.com")) =>
                valid = <<"a@x.com">> /\ unverified = <<"b@x.com">>
          /\ \A k \in Sends :
               LET call == trace[k].arg IN
               /\ call.Destinations = valid
               /\ \A d \in Range(call.Destinations) : Verified(d)
               /\ call.RawMessage.To = Join(valid)
               /\ (call.RawMessage.Unverified = "None") <=> (unverified = <<>>)
               /\ unverified # <<>> =>
                    call.RawMessage.Unverified = Join(unverified)
               /\ (Verified("a@x.com") /\ ~Verified("b@x.com")) =>
                    call.RawMessage.Unverified = "b@x.com"

\* a@x.com is verified and b@x.com is an identity still pending: the report
\* goes to a@x.com alone and names b@x.com.
C7_Witness ==
    /\ Partitioned
    /\ SesSeen["a@x.com"] = "Success" /\ SesSeen["b@x.com"] = "Pending"
    /\ \E k \in Sends :
         /\ trace[k].arg.Destinations = <<"a@x.com">>
         /\ trace[k].arg.RawMessage.Unverified = "b@x.com"
         /\ IsReport(trace[k].arg.RawMessage)

\* C8: a returned status is 200 or 400; 200 means exactly one send call was
\* made and accepted; a rejected send gives 400 'Failed to send email' after
\* exactly one send call; 400 comes only from 'no valid recipients' or from a
\* rejected message.
C8_ResultCodes ==
    /\ result.kind = "return" => result.statusCode \in {200, 400}
    /\ result.kind = "return" <=> pc = "done"
    /\ result.statusCode = 200 =>
         /\ Cardinality(Sends) = 1
         /\ \A k \in Sends : trace[k].outcome = "ok"
    /\ \A k \in Sends :
         trace[k].outcome = "MessageRejected" =>
           /\ result = Returned(400, "Failed to send email")
           /\ Cardinality(Sends) = 1
           /\ k = Len(trace)
    /\ result.statusCode = 400 =>
         \/ /\ result.body = "No valid recipient email addresses found."
            /\ Partitioned /\ recipients.valid = <<>> /\ Sends = {}
         \/ /\ result.body = "Failed to send email"
            /\ \E k \in Sends : trace[k].outcome = "MessageRejected"

\* The provider rejected the report after images were deregistered.
C8_Witness ==
    /\ result = Returned(400, "Failed to send email")
    /\ DeregisteredInRun # {}
    /\ \E k \in Sends : trace[k].outcome = "MessageRejected"

\* No image qualifies now that the invocation before did not already record.
NoNewQualifyingImages ==
    \A i \in ImageIds :
      (catalog[i].CreationDate.wellFormed
         /\ now - catalog[i].CreationDate.t > SevenDays)
        => catalog[i].ImageId \in previous.recorded

\* C9: an invocation that follows a successful one, with no image newly
\* qualifying, makes no deregister and no delete call, records nothing, and
\* any email it sends is 'none found' without attachment.
C9_RerunIsNoOp ==
    (run = "rerun" /\ previous.statusCode = 200 /\ NoNewQualifyingImages) =>
        /\ Idx("deregister_image") = {}
        /\ Idx("delete_snapshot") = {}
        /\ Selected = {}
        /\ ami_details = <<>>
        /\ pc = "send" => IsNoneFound(RawMessage)
        /\ \A k \in Sends : IsNoneFound(trace[k].arg.RawMessage)
        /\ result.statusCode = 200 =>
             \E k \in Sends : IsNoneFound(trace[k].arg.RawMessage)

\* The first invocation deleted an image and reported it; the next one found
\* a younger image still listed and sent 'none found'.
C9_Witness ==
    /\ run = "rerun" /\ previous.statusCode = 200 /\ NoNewQualifyingImages
    /\ previous.recorded # {}
    /\ registered # {}
    /\ result.statusCode = 200
    /\ \E k \in Sends : IsNoneFound(trace[k].arg.RawMessage)

\* What C10 asks of a state.
AllSelectedGone ==
    \A ami_id \in Selected :
      /\ ami_id \notin registered
      /\ MappedSnapshots(ImageOf(ami_id)) \cap existing = {}
DeletionBeforeNotification ==
    /\ \A j \in Idx("deregister_image") \cup Idx("delete_snapshot") :
         \A k \in Idx("list_identities") \cup Sends : j < k
    /\ ScanComplete => AllSelectedGone
    /\ result.statusCode = 400 =>
         /\ AllSelectedGone
         /\ \A k \in Sends : trace[k].outcome # "ok"

\* C10: every deregister and delete call precedes the identity query and the
\* send; the recipient check and the send leave the account as the scan left
\* it, whatever the identities' status and the send's outcome; and a 400
\* result finds every selected image deregistered, its snapshots deleted and
\* no email delivered.
C10_DeletionIndependentOfNotification ==
    [][ /\ DeletionBeforeNotification'
        /\ pc \in {"recipients", "send"} => UNCHANGED account ]_vars

\* Images and snapshots are gone and the answer is 400.
C10_Witness ==
    /\ result.statusCode = 400
    /\ DeregisteredInRun # {} /\ DeletedInRun # {}
    /\ registered # {}

====
